---- MODULE Spec2Model ----
(***************************************************************************)
(* A model of notebooks/article_1.py: one script that loads a table of     *)
(* startups, prunes columns, imputes, sign-normalises, flags outliers,     *)
(* encodes categorical columns, converts dates to day offsets and exports. *)
(*                                                                         *)
(* A DataFrame is a record [index, cols]: index is the sequence of row     *)
(* labels, cols maps each column name to the sequence of its cells (the    *)
(* order of the columns is not modelled).  float64 cells are exact         *)
(* rationals [n, d] in lowest terms; NaN is [n |-> 0, d |-> 0].            *)
(***************************************************************************)
EXTENDS Integers, Sequences, FiniteSets, TLC

VARIABLES pc, csv, dataframe, column_mappings, reference_date, threshold, error,
          cleaned_data, analysis

vars == <<pc, csv, dataframe, column_mappings, reference_date, threshold, error,
          cleaned_data, analysis>>

(***************************************************************************)
(* Bounds of the model.                                                    *)
(***************************************************************************)
\* rows of a table handed to one function
MaxRows == 3
\* rows of the file the whole script is run on
MaxFileRows == 3
\* rows of a table whose outliers are looked for at the default threshold
MaxTableRows == 18

(***************************************************************************)
(* float64 arithmetic, modelled exactly.                                   *)
(***************************************************************************)
Abs(i) == IF i < 0 THEN -i ELSE i

RECURSIVE GCD(_, _)
GCD(a, b) == IF b = 0 THEN a ELSE GCD(b, a % b)

\* the rational n/d (d > 0) in lowest terms
Frac(n, d) ==
    LET g == GCD(Abs(n), d) IN [n |-> n \div g, d |-> d \div g]

Num(i) == [n |-> i, d |-> 1]

NaN == [n |-> 0, d |-> 0]

IsNaN(x) == x.d = 0

RAdd(x, y) ==
    IF IsNaN(x) \/ IsNaN(y) THEN NaN
    ELSE Frac(x.n * y.d + y.n * x.d, x.d * y.d)

RSub(x, y) ==
    IF IsNaN(x) \/ IsNaN(y) THEN NaN
    ELSE Frac(x.n * y.d - y.n * x.d, x.d * y.d)

RMul(x, y) ==
    IF IsNaN(x) \/ IsNaN(y) THEN NaN
    ELSE Frac(x.n * y.n, x.d * y.d)

\* x / k for an integer count k; 0/0 and x/0 are NaN as in numpy's nan-aware mean
RDivInt(x, k) ==
    IF IsNaN(x) \/ k = 0 THEN NaN
    ELSE Frac(x.n, x.d * k)

\* a sign flip in place of the absolute value
RNeg(x) == [n |-> -x.n, d |-> x.d]

\* np.abs on one cell: NaN stays NaN
RAbs(x) == [n |-> Abs(x.n), d |-> x.d]

\* the comparison reversed
RGtReversed(x, y) == ~IsNaN(x) /\ ~IsNaN(y) /\ x.n * y.d < y.n * x.d

\* >= in place of >
RGe(x, y) == ~IsNaN(x) /\ ~IsNaN(y) /\ x.n * y.d >= y.n * x.d

\* x > y on floats: FALSE whenever an operand is NaN
RGt(x, y) == ~IsNaN(x) /\ ~IsNaN(y) /\ x.n * y.d > y.n * x.d

RLt(x, y) == RGt(y, x)

(***************************************************************************)
(* Timestamps: [year, month, day], NaT for a missing one.                  *)
(***************************************************************************)
Timestamp(y, m, d) == [year |-> y, month |-> m, day |-> d]

NaT == [year |-> 0, month |-> 0, day |-> 0]

IsNaT(ts) == ts.year = 0

IsLeap(y) == (y % 4 = 0 /\ y % 100 # 0) \/ y % 400 = 0

DaysInMonth(y, m) ==
    IF m = 2 THEN (IF IsLeap(y) THEN 29 ELSE 28)
    ELSE IF m \in {4, 6, 9, 11} THEN 30 ELSE 31

RECURSIVE DaysBeforeMonth(_, _)
DaysBeforeMonth(y, m) ==
    IF m = 1 THEN 0 ELSE DaysBeforeMonth(y, m - 1) + DaysInMonth(y, m - 1)

\* the day number of a Timestamp in the proleptic Gregorian calendar
Ordinal(ts) ==
    LET p == ts.year - 1
    IN  365 * p + (p \div 4) - (p \div 100) + (p \div 400)
        + DaysBeforeMonth(ts.year, ts.month) + ts.day

\* Series.min() / DataFrame.min().min() over Timestamps: NaT is skipped
MinTimestamp(cells) ==
    LET present == {ts \in cells : ~IsNaT(ts)}
    IN  IF present = {} THEN NaT
        ELSE CHOOSE ts \in present :
                \A other \in present : Ordinal(ts) <= Ordinal(other)

(***************************************************************************)
(* Exceptions: the type, and for a KeyError the column names its message   *)
(* gives.                                                                  *)
(***************************************************************************)
NoError == [type |-> "", names |-> {}]

KeyError(names) == [type |-> "KeyError", names |-> names]

\* dateutil's ParserError is a ValueError; its message quotes the text
ValueError == [type |-> "ValueError", names |-> {}]

(***************************************************************************)
(* Sequences and tables.                                                   *)
(***************************************************************************)
Range(s) == {s[i] : i \in DOMAIN s}

RECURSIVE SeqSum(_)
SeqSum(s) == IF s = <<>> THEN Num(0) ELSE RAdd(Head(s), SeqSum(Tail(s)))

\* the cells of a column that are not missing, in order
NotNa(column) == SelectSeq(column, LAMBDA x : ~IsNaN(x))

NRows(df) == Len(df.index)

Columns(df) == DOMAIN df.cols

\* df with column c set to the sequence s (added when absent)
SetColumn(df, c, s) ==
    [df EXCEPT !.cols = [k \in (DOMAIN df.cols) \cup {c} |->
                            IF k = c THEN s ELSE df.cols[k]]]

\* a mean that counts the missing cells as rows
MeanOverAllRows(column) == RDivInt(SeqSum(NotNa(column)), Len(column))

\* Series.mean(): the mean of the non-missing cells, NaN when there is none
Mean(column) == RDivInt(SeqSum(NotNa(column)), Len(NotNa(column)))

\* every cell replaced by value, missing or not
FillEvery(column, value) == [i \in DOMAIN column |-> value]

\* Series.fillna(value): every missing cell replaced by value
Fillna(column, value) ==
    [i \in DOMAIN column |-> IF IsNaN(column[i]) THEN value ELSE column[i]]

(***************************************************************************)
(* Column pruning (In[157]).                                               *)
(***************************************************************************)
DropList ==
    { "Unnamed: 0", "latitude", "longitude", "zip_code", "id", "name",
      "Unnamed: 6", "object_id", "labels", "state_code.1", "is_CA", "is_NY",
      "is_MA", "is_TX", "is_otherstate", "is_software", "is_web", "is_mobile",
      "is_enterprise", "is_advertising", "is_gamesvideo", "is_ecommerce",
      "is_biotech", "is_consulting", "is_othercategory" }

\* a drop that ignores the labels that are not columns
DropNeverRaises(df, labels) == FALSE

\* DataFrame.drop(labels, axis=1) raises KeyError unless every label is a column
DropRaises(df, labels) == ~(labels \subseteq Columns(df))

\* a drop that leaves one of the labelled columns in place
DropKeepsOne(df, labels) ==
    LET keep == CHOOSE l \in labels : TRUE
    IN  [index |-> df.index,
         cols |-> [k \in (Columns(df) \ labels) \cup {keep} |-> df.cols[k]]]

\* DataFrame.drop(labels, axis=1).copy(): a new frame without the labelled columns
Drop(df, labels) ==
    [index |-> df.index,
     cols |-> [k \in Columns(df) \ labels |-> df.cols[k]]]

\* dataframe = dataframe.drop([...], axis=1).copy()
DropIrrelevant ==
    /\ pc = "drop"
    /\ IF DropRaises(dataframe, DropList)
       THEN /\ pc' = "error"
            /\ error' = KeyError(DropList \ Columns(dataframe))
            /\ UNCHANGED dataframe
       ELSE /\ pc' = "impute"
            /\ dataframe' = Drop(dataframe, DropList)
            /\ UNCHANGED error
    /\ UNCHANGED <<analysis, cleaned_data, csv, column_mappings, reference_date, threshold>>

(***************************************************************************)
(* The drop statement run on any table of the bounded family below.        *)
(***************************************************************************)
\* pd.RangeIndex(n): the row labels read_csv gives
RangeIndex(n) == [i \in 1..n |-> i - 1]

\* a column whose cells no statement of the script reads
Filler(n) == [i \in 1..n |-> "-"]

StatusValues == {"acquired", "closed"}

\* cleaned_data.csv before it is written: no rows, no columns
NoFile == [index |-> <<>>, cols |-> <<>>]

\* the frames of the analysis cells before they are assigned
NoAnalysis ==
    [numerical_df_1 |-> NoFile, grouped |-> {}, d |-> NoFile,
     filtered_data |-> NoFile]

Idle ==
    /\ column_mappings = <<>>
    /\ reference_date = NaT
    /\ threshold = Num(0)
    /\ error = NoError
    /\ cleaned_data = NoFile
    /\ analysis = NoAnalysis

\* a table with the listed columns (all of the drop list, or all but one)
\* and any of three columns the statement must keep
InitDrop ==
    /\ pc = "drop"
    /\ \E n \in 0..MaxRows :
       \E listed \in {DropList, DropList \ {"labels"}} :
       \E kept \in SUBSET {"status", "milestones", "city"} :
       \E s \in [1..n -> StatusValues] :
       \E m \in [1..n -> {Num(0), Num(2)}] :
          csv = [index |-> RangeIndex(n),
                 cols |-> [k \in listed \cup kept |->
                              IF k = "status" THEN s
                              ELSE IF k = "milestones" THEN m
                              ELSE Filler(n)]]
    /\ dataframe = csv
    /\ Idle

SpecDrop == InitDrop /\ [][DropIrrelevant]_vars

\* C1: for every table that contains all the names of the drop list, the
\* table after the drop has exactly the columns of the input minus the list,
\* the same rows (count and labels), and every cell of every retained
\* column equal to its value in the input.
C1_PruneExact ==
    (pc = "impute" /\ DropList \subseteq Columns(csv)) =>
        /\ Columns(dataframe) = Columns(csv) \ DropList
        /\ NRows(dataframe) = NRows(csv)
        /\ dataframe.index = csv.index
        /\ \A c \in Columns(csv) \ DropList :
              /\ c \in Columns(dataframe)
              /\ Len(dataframe.cols[c]) = NRows(csv)
              /\ \A i \in 1..NRows(csv) : dataframe.cols[c][i] = csv.cols[c][i]

C1_Witness ==
    /\ pc = "impute"
    /\ DropList \subseteq Columns(csv)
    /\ NRows(csv) = MaxRows
    /\ {"status", "milestones"} \subseteq Columns(dataframe)
    /\ dataframe.cols["status"][1] # dataframe.cols["status"][2]
    /\ Cardinality(Columns(dataframe)) = Cardinality(Columns(csv)) - 25

(***************************************************************************)
(* Missing values (In[160]).                                               *)
(***************************************************************************)
ImputedColumns == {"age_first_milestone_year", "age_last_milestone_year"}

\* the missing cells filled with the mean of the absolute values
ImputeMeanOfAbs(df, c) ==
    SetColumn(df, c,
        Fillna(df.cols[c],
               Mean([i \in DOMAIN df.cols[c] |-> RAbs(df.cols[c][i])])))

\* dataframe[c] = dataframe[c].fillna(dataframe[c].mean())
ImputeColumn(df, c) ==
    SetColumn(df, c, Fillna(df.cols[c], Mean(df.cols[c])))

\* the two assignments of In[160], in order: the first is done when the
\* second raises
Impute ==
    /\ pc = "impute"
    /\ IF "age_first_milestone_year" \notin Columns(dataframe)
       THEN /\ pc' = "error"
            /\ error' = KeyError({"age_first_milestone_year"})
            /\ UNCHANGED dataframe
       ELSE IF "age_last_milestone_year" \notin Columns(dataframe)
       THEN /\ pc' = "error"
            /\ error' = KeyError({"age_last_milestone_year"})
            /\ dataframe' = ImputeColumn(dataframe, "age_first_milestone_year")
       ELSE /\ pc' = "negative_values_detection"
            /\ dataframe' =
                  ImputeColumn(ImputeColumn(dataframe, "age_first_milestone_year"),
                               "age_last_milestone_year")
            /\ UNCHANGED error
    /\ UNCHANGED <<analysis, cleaned_data, csv, column_mappings, reference_date, threshold>>

(***************************************************************************)
(* Dates as read_csv leaves them: the text m/d/y, or a missing field.      *)
(***************************************************************************)
DateText(m, d, y) == [m |-> m, d |-> d, y |-> y]

NoText == [m |-> 0, d |-> 0, y |-> 0]

(***************************************************************************)
(* The imputation statements run on any table of the family below.         *)
(***************************************************************************)
AgeCells == {NaN, Num(-3), Num(2)}

\* a table with the two imputed columns and closed_at, or lacking one of them
InitImpute ==
    /\ pc = "impute"
    /\ \E n \in 0..MaxRows :
       \E present \in { ImputedColumns \cup {"closed_at"},
                        ImputedColumns,
                        {"age_first_milestone_year", "closed_at"} } :
       \E a \in [1..n -> AgeCells] :
       \E b \in [1..n -> AgeCells] :
       \E c \in [1..n -> {NoText, DateText(6, 1, 2013)}] :
          csv = [index |-> RangeIndex(n),
                 cols |-> [k \in present |->
                              IF k = "age_first_milestone_year" THEN a
                              ELSE IF k = "age_last_milestone_year" THEN b
                              ELSE c]]
    /\ dataframe = csv
    /\ Idle

SpecImpute == InitImpute /\ [][Impute]_vars

HasMissing(column) == \E i \in DOMAIN column : IsNaN(column[i])

HasValue(column) == \E i \in DOMAIN column : ~IsNaN(column[i])

\* the sum of the non-missing cells at positions 1..k of a column
RECURSIVE SumOfValues(_, _)
SumOfValues(column, k) ==
    IF k = 0 THEN Num(0)
    ELSE IF IsNaN(column[k]) THEN SumOfValues(column, k - 1)
    ELSE RAdd(column[k], SumOfValues(column, k - 1))

CountOfValues(column) == Cardinality({i \in DOMAIN column : ~IsNaN(column[i])})

\* v is the arithmetic mean of the non-missing cells of the column
IsMeanOf(v, column) ==
    /\ ~IsNaN(v)
    /\ RMul(v, Num(CountOfValues(column))) = SumOfValues(column, Len(column))

ImputedAsClaimed(before, after) ==
    /\ ~HasMissing(after)
    /\ \A i \in DOMAIN before :
          IF IsNaN(before[i]) THEN IsMeanOf(after[i], before)
          ELSE after[i] = before[i]

\* C2 as stated: every imputed column with a missing entry has none after the
\* step, each previously-missing cell holding the mean of the non-missing
\* values.  Violated by a column with no value at all.
C2_Original ==
    (pc = "negative_values_detection") =>
        \A c \in ImputedColumns :
            HasMissing(csv.cols[c]) => ImputedAsClaimed(csv.cols[c], dataframe.cols[c])

\* C2, amended: for each imputed column with at least one missing and at
\* least one non-missing entry, after the step the column has no missing
\* entry, each previously-missing cell holds the mean of the values that
\* were present before the step, and the other cells are unchanged.
C2_MeanImputation ==
    (pc = "negative_values_detection") =>
        \A c \in ImputedColumns :
            (HasMissing(csv.cols[c]) /\ HasValue(csv.cols[c])) =>
                ImputedAsClaimed(csv.cols[c], dataframe.cols[c])

C2_Witness ==
    /\ pc = "negative_values_detection"
    /\ \A c \in ImputedColumns :
          /\ CountOfValues(csv.cols[c]) = 2
          /\ Mean(csv.cols[c]).d = 2
          /\ \E i \in DOMAIN csv.cols[c] :
                IsNaN(csv.cols[c][i]) /\ dataframe.cols[c][i] = Frac(-1, 2)

(***************************************************************************)
(* Negative values (In[163]): apply_absolute_values.                       *)
(***************************************************************************)
columns_to_abs ==
    << "age_first_funding_year", "age_last_funding_year",
       "age_first_milestone_year", "age_last_milestone_year" >>

\* the values left as they are
no_absolute_values(df, columns) == df

\* the loop of apply_absolute_values: a listed column that is absent is skipped
RECURSIVE apply_absolute_values(_, _)
apply_absolute_values(df, columns) ==
    IF columns = <<>> THEN df
    ELSE LET col == Head(columns)
             done == IF col \in Columns(df)
                     THEN SetColumn(df, col,
                              [i \in DOMAIN df.cols[col] |-> RAbs(df.cols[col][i])])
                     ELSE df
         IN  apply_absolute_values(done, Tail(columns))

\* apply_absolute_values(dataframe, columns_to_abs)
ApplyAbsoluteValues ==
    /\ pc = "apply_absolute_values"
    /\ pc' = "prepare_plot_data"
    /\ dataframe' = apply_absolute_values(dataframe, columns_to_abs)
    /\ UNCHANGED <<analysis, cleaned_data, csv, column_mappings, reference_date, threshold, error>>

\* a table with any of the four listed columns and one column not listed
InitAbs ==
    /\ pc = "apply_absolute_values"
    /\ \E n \in 0..MaxRows :
       \E present \in SUBSET Range(columns_to_abs) :
       \E a \in [1..n -> AgeCells] :
       \E b \in [1..n -> AgeCells \cup {Frac(-1, 2)}] :
          csv = [index |-> RangeIndex(n),
                 cols |-> [k \in present \cup {"relationships"} |->
                              IF k \in {"age_first_funding_year", "age_last_milestone_year"}
                              THEN a ELSE b]]
    /\ dataframe = csv
    /\ Idle

SpecAbs == InitAbs /\ [][ApplyAbsoluteValues]_vars

\* C3: sign normalisation is idempotent (a second application changes
\* nothing), after one application every non-missing value of a targeted
\* column is >= 0, and every value that was already non-negative (or
\* missing), and every column not targeted, is unchanged.
C3_SignNormalise ==
    (pc = "prepare_plot_data") =>
        /\ apply_absolute_values(dataframe, columns_to_abs) = dataframe
        /\ Columns(dataframe) = Columns(csv)
        /\ dataframe.index = csv.index
        /\ \A c \in Columns(csv) :
              IF c \in Range(columns_to_abs)
              THEN \A i \in DOMAIN csv.cols[c] :
                      LET old == csv.cols[c][i]
                          new == dataframe.cols[c][i]
                      IN  /\ IsNaN(new) \/ new.n >= 0
                          /\ (IsNaN(old) \/ old.n >= 0) => new = old
                          /\ (~IsNaN(old) /\ old.n < 0) => RAdd(new, old) = Num(0)
              ELSE dataframe.cols[c] = csv.cols[c]

C3_Witness ==
    /\ pc = "prepare_plot_data"
    /\ Range(columns_to_abs) \subseteq Columns(csv)
    /\ NRows(csv) >= 2
    /\ csv.cols["age_first_funding_year"][1] = Num(-3)
    /\ dataframe.cols["age_first_funding_year"][1] = Num(3)
    /\ csv.cols["age_last_funding_year"][2] = Frac(-1, 2)
    /\ dataframe.cols["age_last_funding_year"][2] = Frac(1, 2)
    /\ dataframe.cols["relationships"][2] = Frac(-1, 2)
    /\ dataframe.cols["age_first_funding_year"][2] = Num(2)

(***************************************************************************)
(* Outliers (In[163]): identify_outliers.                                  *)
(* std is not computed: |x - mean| > threshold * std is decided on the     *)
(* squares, (x - mean)^2 > threshold^2 * std^2, both sides being >= 0 for  *)
(* the thresholds >= 0 of the model.  Rounding is not modelled.            *)
(***************************************************************************)
monitored_columns ==
    << "age_first_funding_year", "age_last_funding_year",
       "age_first_milestone_year", "age_last_milestone_year" >>

\* a threshold of one standard deviation
unit_threshold == Num(1)

default_threshold == Num(4)

Square(x) == RMul(x, x)

\* the population variance (ddof = 0)
PopulationStdSquared(column) ==
    LET xs == NotNa(column)
        mean == Mean(column)
    IN  IF Len(xs) <= 1 THEN NaN
        ELSE RDivInt(SeqSum([i \in DOMAIN xs |-> Square(RSub(xs[i], mean))]),
                     Len(xs))

\* Series.std() squared: the sample variance (ddof = 1) of the non-missing
\* cells, NaN when fewer than two cells are present
StdSquared(column) ==
    LET xs == NotNa(column)
        mean == Mean(column)
    IN  IF Len(xs) <= 1 THEN NaN
        ELSE RDivInt(SeqSum([i \in DOMAIN xs |-> Square(RSub(xs[i], mean))]),
                     Len(xs) - 1)

\* the new flag replacing the old one
TakeNew(old, new) == new

\* |= on the 0/1 cells of is_outlier
BitOr(old, new) == IF old = 1 \/ new = 1 THEN 1 ELSE 0

\* (np.abs(column - mean) > threshold * std).astype(int)
OutlierFlags(column, t) ==
    LET mean == Mean(column)
        var == StdSquared(column)
    IN  [i \in DOMAIN column |->
            IF RGt(Square(RAbs(RSub(column[i], mean))), RMul(Square(t), var))
            THEN 1 ELSE 0]

\* the loop of identify_outliers over the remaining column names
RECURSIVE OutlierLoop(_, _, _)
OutlierLoop(df, columns, t) ==
    IF columns = <<>> THEN df
    ELSE LET column_name == Head(columns)
             done ==
                 IF column_name \in Columns(df)
                 THEN LET is_outlier == OutlierFlags(df.cols[column_name], t)
                      IN  SetColumn(df, "is_outlier",
                              [i \in DOMAIN is_outlier |->
                                  BitOr(df.cols["is_outlier"][i], is_outlier[i])])
                 ELSE df
         IN  OutlierLoop(done, Tail(columns), t)

identify_outliers(df, columns, t) ==
    OutlierLoop(SetColumn(df, "is_outlier", [i \in 1..NRows(df) |-> 0]), columns, t)

\* identify_outliers(dataframe, [...]) with the default threshold
IdentifyOutliers ==
    /\ pc = "identify_outliers"
    /\ pc' = "sort_values"
    /\ threshold' = default_threshold
    /\ dataframe' = identify_outliers(dataframe, monitored_columns, threshold')
    /\ UNCHANGED <<analysis, cleaned_data, csv, column_mappings, reference_date, error>>

(***************************************************************************)
(* identify_outliers called, any number of times, with any threshold of a  *)
(* small set on any table of the family below.                             *)
(***************************************************************************)
Thresholds == {Num(0), Frac(1, 2), Num(1), Num(4)}

CallIdentifyOutliers ==
    /\ pc = "call identify_outliers"
    /\ \E t \in Thresholds :
          /\ threshold' = t
          /\ dataframe' = identify_outliers(dataframe, monitored_columns, t)
    /\ UNCHANGED <<analysis, cleaned_data, pc, csv, column_mappings, reference_date, error>>

\* two monitored columns, a third that is constant or absent, the fourth absent
InitOutliers ==
    /\ pc = "call identify_outliers"
    /\ \E n \in 0..MaxRows :
       \E present \in { {"age_first_funding_year", "age_last_funding_year"},
                        {"age_first_funding_year", "age_last_funding_year",
                         "age_first_milestone_year"} } :
       \E a \in [1..n -> {NaN, Num(0), Num(1), Num(5)}] :
       \E b \in [1..n -> {Num(0), Num(1)}] :
          csv = [index |-> RangeIndex(n),
                 cols |-> [k \in present \cup {"relationships"} |->
                              IF k = "age_first_funding_year" THEN a
                              ELSE IF k = "age_last_funding_year" THEN b
                              ELSE IF k = "relationships" THEN a
                              ELSE [i \in 1..n |-> Num(2)]]]
    /\ dataframe = csv
    /\ column_mappings = <<>>
    /\ reference_date = NaT
    /\ threshold = Num(0)
    /\ error = NoError
    /\ cleaned_data = NoFile
    /\ analysis = NoAnalysis

SpecOutliers == InitOutliers /\ [][CallIdentifyOutliers]_vars

\* the rows whose is_outlier is set
Flagged(df) == {i \in 1..NRows(df) : df.cols["is_outlier"][i] = 1}

\* identify_outliers has returned
HasFlags == "is_outlier" \in Columns(dataframe)

RECURSIVE SumOfSquares(_, _)
SumOfSquares(column, k) ==
    IF k = 0 THEN Num(0)
    ELSE IF IsNaN(column[k]) THEN SumOfSquares(column, k - 1)
    ELSE RAdd(RMul(column[k], column[k]), SumOfSquares(column, k - 1))

\* |x_i - mean| > t * s for the sample standard deviation s of the column,
\* with n values present, S their sum and Q the sum of their squares:
\* (n x_i - S)^2 (n - 1) > t^2 n (n Q - S^2), and n >= 2 for s to exist
Deviates(column, i, t) ==
    LET n == CountOfValues(column)
        S == SumOfValues(column, Len(column))
        Q == SumOfSquares(column, Len(column))
        lhs == RMul(RMul(RSub(RMul(Num(n), column[i]), S),
                         RSub(RMul(Num(n), column[i]), S)), Num(n - 1))
        rhs == RMul(RMul(RMul(t, t), Num(n)), RSub(RMul(Num(n), Q), RMul(S, S)))
    IN  /\ ~IsNaN(column[i])
        /\ n >= 2
        /\ lhs.n * rhs.d > rhs.n * lhs.d

MonitoredPresent == Range(monitored_columns) \cap Columns(csv)

\* C4: after identify_outliers every row carries one is_outlier value (0 or
\* 1), set if and only if some monitored column of the table has the row's
\* value further than threshold sample standard deviations from the column
\* mean; the columns are combined by OR, none clears another's flag.
C4_OutlierFlag ==
    HasFlags =>
        /\ Len(dataframe.cols["is_outlier"]) = NRows(csv)
        /\ \A i \in 1..NRows(csv) :
              /\ dataframe.cols["is_outlier"][i] \in {0, 1}
              /\ dataframe.cols["is_outlier"][i] = 1 <=>
                    \E c \in MonitoredPresent : Deviates(csv.cols[c], i, threshold)

\* a row flagged by the first monitored column only, the later ones present
C4_Witness ==
    /\ HasFlags
    /\ NRows(csv) = 3
    /\ "age_first_milestone_year" \in Columns(csv)
    /\ threshold = Num(1)
    /\ Flagged(dataframe) = {3}
    /\ Deviates(csv.cols["age_first_funding_year"], 3, threshold)
    /\ ~Deviates(csv.cols["age_last_funding_year"], 3, threshold)

\* C5: a call with a threshold at least as large as that of the call before,
\* on the same table, flags a subset of the rows the call before flagged.
C5_Monotone ==
    [][(HasFlags /\ threshold.n * threshold'.d <= threshold'.n * threshold.d) =>
          Flagged(dataframe') \subseteq Flagged(dataframe)]_vars

\* a call with threshold 1 that flags some rows, fewer than threshold 1/2 flags
C5_Witness ==
    /\ HasFlags
    /\ threshold = Num(1)
    /\ Flagged(dataframe) # {}
    /\ \E i \in 1..NRows(csv) :
          /\ i \notin Flagged(dataframe)
          /\ \E c \in MonitoredPresent : Deviates(csv.cols[c], i, Frac(1, 2))

\* the values present in the column are all equal, at least two of them
ZeroStd(column) ==
    /\ CountOfValues(column) >= 2
    /\ \A i, j \in DOMAIN column :
          (~IsNaN(column[i]) /\ ~IsNaN(column[j])) => column[i] = column[j]

\* C6: a monitored column with zero standard deviation flags no row and
\* raises nothing: the rows flagged are exactly those the other monitored
\* columns flag.
C6_ZeroStd ==
    HasFlags =>
        \A c \in MonitoredPresent :
            ZeroStd(csv.cols[c]) =>
                /\ error = NoError
                /\ \A i \in 1..NRows(csv) :
                      dataframe.cols["is_outlier"][i] = 1 <=>
                          \E o \in MonitoredPresent \ {c} :
                              Deviates(csv.cols[o], i, threshold)

\* a constant column beside one that flags a row, at thresholds 0 and above
C6_Witness ==
    /\ HasFlags
    /\ "age_first_milestone_year" \in Columns(csv)
    /\ ZeroStd(csv.cols["age_first_milestone_year"])
    /\ ZeroStd(csv.cols["age_last_funding_year"])
    /\ threshold = Num(0)
    /\ Flagged(dataframe) # {}
    /\ Flagged(dataframe) # 1..NRows(csv)

(***************************************************************************)
(* Categorical encoding (In[168]).                                         *)
(***************************************************************************)
categorical_columns ==
    << "state_code", "city", "category_code", "founded_year", "status" >>

\* the distinct cells in the order of their last appearance
RECURSIVE LastAppearances(_)
LastAppearances(column) ==
    IF column = <<>> THEN <<>>
    ELSE IF Head(column) \in Range(Tail(column))
         THEN LastAppearances(Tail(column))
         ELSE <<Head(column)>> \o LastAppearances(Tail(column))

\* Series.unique(): the distinct cells in the order of their first appearance
RECURSIVE Unique(_)
Unique(column) ==
    IF column = <<>> THEN <<>>
    ELSE LET rest == Unique(SubSeq(column, 1, Len(column) - 1))
             last == column[Len(column)]
         IN  IF last \in Range(rest) THEN rest ELSE Append(rest, last)

\* create_mapping: {value: i for i, value in enumerate(unique_values)}
create_mapping(df, column) ==
    LET unique_values == Unique(df.cols[column])
    IN  [value \in Range(unique_values) |->
            (CHOOSE i \in DOMAIN unique_values : unique_values[i] = value) - 1]

\* Series.map(mapping)
Map(column, mapping) == [i \in DOMAIN column |-> mapping[column[i]]]

\* the encoding loop over the remaining columns; dataframe[column] raises
\* KeyError for an absent column, the columns before it staying encoded
RECURSIVE EncodeLoop(_, _, _)
EncodeLoop(df, mappings, columns) ==
    IF columns = <<>> THEN [df |-> df, mappings |-> mappings, error |-> NoError]
    ELSE LET column == Head(columns) IN
         IF column \notin Columns(df)
         THEN [df |-> df, mappings |-> mappings, error |-> KeyError({column})]
         ELSE LET mapping == create_mapping(df, column)
              IN  EncodeLoop(SetColumn(df, column, Map(df.cols[column], mapping)),
                             [k \in (DOMAIN mappings) \cup {column} |->
                                 IF k = column THEN mapping ELSE mappings[k]],
                             Tail(columns))

\* categorical_data = dataframe[columns_to_copy].copy() raises KeyError for an
\* absent column
columns_to_copy == {"status", "state_code", "category_code"}

\* categorical_data, column_mappings = {} and the loop of In[168]
Encode ==
    /\ pc = "encode"
    /\ LET out == IF columns_to_copy \subseteq Columns(dataframe)
                  THEN EncodeLoop(dataframe, <<>>, categorical_columns)
                  ELSE [df |-> dataframe, mappings |-> column_mappings,
                        error |-> KeyError(columns_to_copy \ Columns(dataframe))]
       IN  /\ dataframe' = out.df
           /\ column_mappings' = out.mappings
           /\ error' = out.error
           /\ pc' = IF out.error = NoError THEN "date_normalise" ELSE "error"
    /\ UNCHANGED <<analysis, cleaned_data, csv, reference_date, threshold>>

\* the five columns (founded_year possibly absent), two of them following
\* the cells of others
InitEncode ==
    /\ pc = "encode"
    /\ \E n \in 0..MaxRows :
       \E present \in { Range(categorical_columns),
                        Range(categorical_columns) \ {"founded_year"} } :
       \E a \in [1..n -> {"CA", "NY", "TX"}] :
       \E b \in [1..n -> {"San Francisco", "Austin"}] :
       \E s \in [1..n -> StatusValues] :
          csv = [index |-> RangeIndex(n),
                 cols |-> [k \in present \cup {"milestones"} |->
                              IF k = "state_code" THEN a
                              ELSE IF k = "city" THEN b
                              ELSE IF k = "status" THEN s
                              ELSE IF k = "category_code"
                                   THEN [i \in 1..n |-> a[n + 1 - i]]
                              ELSE IF k = "founded_year"
                                   THEN [i \in 1..n |->
                                            IF b[i] = "Austin" THEN "2005" ELSE "2007"]
                              ELSE [i \in 1..n |-> i]]]
    /\ dataframe = csv
    /\ Idle

SpecEncode == InitEncode /\ [][Encode]_vars

\* the position of the first cell of the column equal to v
FirstIndex(column, v) ==
    CHOOSE i \in DOMAIN column :
        column[i] = v /\ \A j \in 1..(i - 1) : column[j] # v

\* C7: for each encoded column the mapping gives every distinct value one
\* code, the codes are 0..k-1 in the order the values first appear from the
\* top of the table (not sorted, not by frequency), every code is used by a
\* row, and every cell is rewritten to the code of its value.
C7_FirstAppearanceCodes ==
    (pc = "date_normalise") =>
        \A c \in Range(categorical_columns) :
            LET old == csv.cols[c]
                new == dataframe.cols[c]
                m == column_mappings[c]
                k == Cardinality(Range(old))
            IN  /\ DOMAIN m = Range(old)
                /\ {m[v] : v \in DOMAIN m} = 0..(k - 1)
                /\ \A v, w \in DOMAIN m :
                      m[v] < m[w] <=> FirstIndex(old, v) < FirstIndex(old, w)
                /\ \A code \in 0..(k - 1) : \E i \in DOMAIN new : new[i] = code
                /\ \A i \in DOMAIN old : new[i] = m[old[i]]

\* TX first and once, NY after it and twice: TX is 0 and NY is 1
C7_Witness ==
    /\ pc = "date_normalise"
    /\ csv.cols["state_code"] = <<"TX", "NY", "NY">>
    /\ column_mappings["state_code"]["TX"] = 0
    /\ column_mappings["state_code"]["NY"] = 1
    /\ dataframe.cols["state_code"] = <<0, 1, 1>>
    /\ csv.cols["status"] = <<"closed", "acquired", "closed">>
    /\ dataframe.cols["status"] = <<0, 1, 0>>

(***************************************************************************)
(* Datetime features to days (In[169]).                                    *)
(***************************************************************************)
columns_to_convert == << "founded_at", "first_funding_at", "last_funding_at" >>

\* the offsets counted from the earliest date of the column itself
DaysSinceOwnMinimum(column, reference) ==
    LET own == MinTimestamp(Range(column))
    IN  [i \in DOMAIN column |->
            IF IsNaT(column[i]) THEN NaN
            ELSE Num(Ordinal(column[i]) - Ordinal(own))]

\* (dataframe[column] - reference_date).dt.days: NaN where either is NaT
DaysSince(column, reference) ==
    [i \in DOMAIN column |->
        IF IsNaT(column[i]) \/ IsNaT(reference) THEN NaN
        ELSE Num(Ordinal(column[i]) - Ordinal(reference))]

\* the loop adding <column>_days for the remaining columns
RECURSIVE ConvertLoop(_, _, _)
ConvertLoop(df, columns, reference) ==
    IF columns = <<>> THEN df
    ELSE ConvertLoop(SetColumn(df, Head(columns) \o "_days",
                               DaysSince(df.cols[Head(columns)], reference)),
                     Tail(columns), reference)

\* reference_date = dataframe[[...]].min().min(), the loop, and the drop of
\* the three datetime columns
DateNormalise ==
    /\ pc = "date_normalise"
    /\ IF ~(Range(columns_to_convert) \subseteq Columns(dataframe))
       THEN /\ pc' = "error"
            /\ error' = KeyError(Range(columns_to_convert) \ Columns(dataframe))
            /\ UNCHANGED <<dataframe, reference_date>>
       ELSE /\ pc' = "export"
            /\ reference_date' =
                  MinTimestamp(UNION {Range(dataframe.cols[c]) :
                                          c \in Range(columns_to_convert)})
            /\ dataframe' = Drop(ConvertLoop(dataframe, columns_to_convert,
                                             reference_date'),
                                 Range(columns_to_convert))
            /\ UNCHANGED error
    /\ UNCHANGED <<analysis, cleaned_data, csv, column_mappings, threshold>>

\* three datetime columns (last_funding_at possibly absent, and later than
\* 2020-01-20 in the first row only) and status
InitDates ==
    /\ pc = "date_normalise"
    /\ \E n \in 0..MaxRows :
       \E present \in { Range(columns_to_convert),
                        Range(columns_to_convert) \ {"last_funding_at"} } :
       \E a \in [1..n -> {Timestamp(2020, 1, 10), Timestamp(2020, 1, 1),
                          Timestamp(2019, 12, 25)}] :
       \E b \in [1..n -> {Timestamp(2020, 1, 10), Timestamp(2020, 1, 20), NaT}] :
       \E c \in {Timestamp(2020, 1, 20), Timestamp(2020, 3, 1)} :
          csv = [index |-> RangeIndex(n),
                 cols |-> [k \in present \cup {"status"} |->
                              IF k = "founded_at" THEN a
                              ELSE IF k = "first_funding_at" THEN b
                              ELSE IF k = "last_funding_at"
                                   THEN [i \in 1..n |->
                                            IF i = 1 THEN c ELSE Timestamp(2020, 1, 20)]
                              ELSE [i \in 1..n |-> 1]]]
    /\ dataframe = csv
    /\ column_mappings = <<>>
    /\ reference_date = NaT
    /\ threshold = Num(0)
    /\ error = NoError
    /\ cleaned_data = NoFile
    /\ analysis = NoAnalysis

SpecDates == InitDates /\ [][DateNormalise]_vars

\* ts1 is an earlier date than ts2
Before(ts1, ts2) ==
    \/ ts1.year < ts2.year
    \/ ts1.year = ts2.year /\ ts1.month < ts2.month
    \/ ts1.year = ts2.year /\ ts1.month = ts2.month /\ ts1.day < ts2.day

\* the date after ts, with February of 29 days in the years divisible by 4
\* (but not by 100 unless by 400)
NextDay(ts) ==
    LET feb == IF (ts.year % 4 = 0 /\ ts.year % 100 # 0) \/ ts.year % 400 = 0
               THEN 29 ELSE 28
        len == IF ts.month = 2 THEN feb
               ELSE IF ts.month \in {4, 6, 9, 11} THEN 30 ELSE 31
    IN  IF ts.day < len THEN [ts EXCEPT !.day = ts.day + 1]
        ELSE IF ts.month < 12 THEN [ts EXCEPT !.month = ts.month + 1, !.day = 1]
        ELSE [year |-> ts.year + 1, month |-> 1, day |-> 1]

\* the number of days from one date to a later (or the same) one, counted
RECURSIVE DaysBetween(_, _)
DaysBetween(from, to) ==
    IF from = to THEN 0 ELSE 1 + DaysBetween(NextDay(from), to)

DateCells(df) ==
    {ts \in UNION {Range(df.cols[c]) : c \in Range(columns_to_convert)} : ~IsNaT(ts)}

\* C10: the reference date is the one minimum over all values of the three
\* date columns together; every derived <column>_days value is the number of
\* days from the reference date to the value's date, >= 0, and 0 for a cell
\* holding the reference date; within a column the difference of two
\* offsets is the number of days between the two dates.
C10_DateOffsets ==
    (pc = "export") =>
        /\ DateCells(csv) # {} =>
              /\ reference_date \in DateCells(csv)
              /\ \A ts \in DateCells(csv) : ~Before(ts, reference_date)
        /\ \A c \in Range(columns_to_convert) :
              LET old == csv.cols[c]
                  new == dataframe.cols[c \o "_days"]
              IN  /\ DOMAIN new = DOMAIN old
                  /\ \A i \in DOMAIN old :
                        ~IsNaT(old[i]) =>
                            /\ new[i] = Num(DaysBetween(reference_date, old[i]))
                            /\ new[i].n >= 0
                            /\ old[i] = reference_date => new[i] = Num(0)
                  /\ \A i, j \in DOMAIN old :
                        (~IsNaT(old[i]) /\ ~IsNaT(old[j]) /\ ~Before(old[j], old[i])) =>
                            new[j].n - new[i].n = DaysBetween(old[i], old[j])

\* 2020-01-10 and 2020-01-01 in founded_at, 2020-01-20 in first_funding_at:
\* offsets 9, 0 and 19 from 2020-01-01
C10_Witness ==
    /\ pc = "export"
    /\ csv.cols["founded_at"] = <<Timestamp(2020, 1, 10), Timestamp(2020, 1, 1)>>
    /\ csv.cols["first_funding_at"][1] = Timestamp(2020, 1, 20)
    /\ csv.cols["last_funding_at"][1] = Timestamp(2020, 3, 1)
    /\ reference_date = Timestamp(2020, 1, 1)
    /\ dataframe.cols["founded_at_days"] = <<Num(9), Num(0)>>
    /\ dataframe.cols["first_funding_at_days"][1] = Num(19)
    /\ dataframe.cols["last_funding_at_days"] = <<Num(60), Num(19)>>

(***************************************************************************)
(* The rest of the script, statement by statement.                         *)
(***************************************************************************)
\* df = pd.DataFrame(dataframe); df['binary_status'] = df['status'].map(...)
\* Whether df shares the columns of dataframe depends on the pandas release
\* (the constructor's fast path hands over the same block manager, later
\* releases make a shallow copy): either outcome is possible.
BinaryStatus ==
    /\ pc = "binary_status"
    /\ IF "status" \notin Columns(dataframe)
       THEN /\ pc' = "error"
            /\ error' = KeyError({"status"})
            /\ UNCHANGED dataframe
       ELSE /\ pc' = "drop"
            /\ \E shared \in BOOLEAN :
                  dataframe' =
                     IF shared
                     THEN SetColumn(dataframe, "binary_status",
                              [i \in 1..NRows(dataframe) |->
                                  IF dataframe.cols["status"][i] = "acquired" THEN Num(1)
                                  ELSE IF dataframe.cols["status"][i] = "closed" THEN Num(0)
                                  ELSE NaN])
                     ELSE dataframe
            /\ UNCHANGED error
    /\ UNCHANGED <<analysis, cleaned_data, csv, column_mappings, reference_date, threshold>>

\* the text can be read as month/day/year
MonthFirst(text) ==
    /\ text.m \in 1..12
    /\ text.y >= 1
    /\ text.d \in 1..DaysInMonth(text.y, text.m)

\* the text can only be read as day/month/year: dateutil swaps the two
\* fields when the first is no month
DayFirst(text) ==
    /\ text.d \in 1..12
    /\ text.y >= 1
    /\ text.m \in 1..DaysInMonth(text.y, text.d)

\* errors='coerce': nothing raises
ParseableCoerce(text, lenient) == TRUE

\* pd.to_datetime accepts the cell.  A text that reads only day-first is
\* accepted where each cell goes through dateutil (lenient) and refused where
\* the format %m/%d/%Y guessed from the first cell is applied to all of them
\* (pandas 2): which of the two depends on the installed release.
Parseable(text, lenient) ==
    text = NoText \/ MonthFirst(text) \/ (lenient /\ DayFirst(text))

\* pd.to_datetime on one cell that parses
to_datetime(text) ==
    IF text = NoText THEN NaT
    ELSE IF MonthFirst(text) THEN Timestamp(text.y, text.m, text.d)
    ELSE Timestamp(text.y, text.d, text.m)

date_columns == << "founded_at", "first_funding_at", "last_funding_at" >>

age_columns ==
    << "age_first_funding_year", "age_last_funding_year",
       "age_first_milestone_year", "age_last_milestone_year" >>

\* the loop of convert_to_datetime: the columns before the one that fails
\* stay converted (the frame is changed in place)
RECURSIVE ConvertToDatetime(_, _, _)
ConvertToDatetime(df, columns, lenient) ==
    IF columns = <<>> THEN [df |-> df, error |-> NoError]
    ELSE LET col == Head(columns) IN
         IF col \notin Columns(df) THEN [df |-> df, error |-> KeyError({col})]
         ELSE IF \E i \in DOMAIN df.cols[col] : ~Parseable(df.cols[col][i], lenient)
              THEN [df |-> df, error |-> ValueError]
         ELSE ConvertToDatetime(
                  SetColumn(df, col,
                      [i \in DOMAIN df.cols[col] |-> to_datetime(df.cols[col][i])]),
                  Tail(columns), lenient)

\* later.dt.year - earlier.dt.year, cell by cell: NaN where either is NaT
YearDifference(later, earlier) ==
    [i \in DOMAIN later |->
        IF IsNaT(later[i]) \/ IsNaT(earlier[i]) THEN NaN
        ELSE Num(later[i].year - earlier[i].year)]

\* the loop of add_negative_value_columns
RECURSIVE AddNegativeValueColumns(_, _)
AddNegativeValueColumns(df, columns) ==
    IF columns = <<>> THEN [df |-> df, error |-> NoError]
    ELSE LET col == Head(columns) IN
         IF col \notin Columns(df) THEN [df |-> df, error |-> KeyError({col})]
         ELSE AddNegativeValueColumns(
                  SetColumn(df, "negative_" \o col,
                      [i \in DOMAIN df.cols[col] |->
                          IF RLt(df.cols[col][i], Num(0)) THEN 1 ELSE 0]),
                  Tail(columns))

\* negative_values_detection(dataframe): convert_to_datetime, then
\* add_negative_value_columns, then the scatter plots (which change nothing)
negative_values_detection(df, lenient) ==
    LET converted == ConvertToDatetime(df, date_columns, lenient) IN
    IF converted.error # NoError THEN converted
    ELSE LET first == SetColumn(converted.df, "diff_founded_first_funding",
                          YearDifference(converted.df.cols["first_funding_at"],
                                         converted.df.cols["founded_at"]))
             last == SetColumn(first, "diff_founded_last_funding",
                          YearDifference(first.cols["last_funding_at"],
                                         first.cols["founded_at"]))
         IN  AddNegativeValueColumns(last, age_columns)

NegativeValuesDetection ==
    /\ pc = "negative_values_detection"
    /\ \E lenient \in BOOLEAN :
       LET out == negative_values_detection(dataframe, lenient)
       IN  /\ dataframe' = out.df
           /\ error' = out.error
           /\ pc' = IF out.error = NoError THEN "apply_absolute_values" ELSE "error"
    /\ UNCHANGED <<analysis, cleaned_data, csv, column_mappings, reference_date, threshold>>

\* np.abs(later.dt.year - founded_at.dt.year)
AbsYearDifference(df, later) ==
    LET diff == YearDifference(df.cols[later], df.cols["founded_at"])
    IN  [i \in DOMAIN diff |-> RAbs(diff[i])]

\* prepare_plot_data(dataframe): two more columns on the frame, the first
\* one added when the second assignment raises
PreparePlotData ==
    /\ pc = "prepare_plot_data"
    /\ IF "first_funding_at" \notin Columns(dataframe)
       THEN /\ pc' = "error"
            /\ error' = KeyError({"first_funding_at"})
            /\ UNCHANGED dataframe
       ELSE IF "founded_at" \notin Columns(dataframe)
       THEN /\ pc' = "error"
            /\ error' = KeyError({"founded_at"})
            /\ UNCHANGED dataframe
       ELSE LET first == SetColumn(dataframe, "abs_diff_founded_first_funding",
                              AbsYearDifference(dataframe, "first_funding_at"))
            IN  IF "last_funding_at" \notin Columns(dataframe)
                THEN /\ pc' = "error"
                     /\ error' = KeyError({"last_funding_at"})
                     /\ dataframe' = first
                ELSE /\ pc' = "identify_outliers"
                     /\ dataframe' =
                           SetColumn(first, "abs_diff_founded_last_funding",
                                     AbsYearDifference(first, "last_funding_at"))
                     /\ UNCHANGED error
    /\ UNCHANGED <<analysis, cleaned_data, csv, column_mappings, reference_date, threshold>>

\* the decimal digits of k as character codes
RECURSIVE Digits(_)
Digits(k) == IF k < 10 THEN <<48 + k>> ELSE Digits(k \div 10) \o <<48 + (k % 10)>>

\* the characters of the text m/d/y ('/' is 47)
TextChars(text) ==
    Digits(text.m) \o <<47>> \o Digits(text.d) \o <<47>> \o Digits(text.y)

\* a < b on Python strings
RECURSIVE LexLess(_, _)
LexLess(a, b) ==
    IF b = <<>> THEN FALSE
    ELSE IF a = <<>> THEN TRUE
    ELSE IF Head(a) # Head(b) THEN Head(a) < Head(b)
    ELSE LexLess(Tail(a), Tail(b))

\* the row at position i may stand before the row at position j after
\* sort_values(by='closed_at', ascending=False): closed_at is still text, the
\* rows without one go last in their order, and equal keys may come out in
\* either order (the default quicksort is not stable)
MayPrecede(key, i, j) ==
    IF key[i] = NoText THEN key[j] = NoText /\ i < j
    ELSE key[j] = NoText \/ ~LexLess(TextChars(key[i]), TextChars(key[j]))

SortOrders(key) ==
    {p \in Permutations(DOMAIN key) :
        \A i, j \in DOMAIN key : i < j => MayPrecede(key, p[i], p[j])}

\* the row labels taken in the order p, the cells left where they are
TakeLabelsOnly(df, p) ==
    [index |-> [i \in DOMAIN df.index |-> df.index[p[i]]],
     cols |-> df.cols]

\* the rows of df taken in the order p
Take(df, p) ==
    [index |-> [i \in DOMAIN df.index |-> df.index[p[i]]],
     cols |-> [k \in Columns(df) |-> [i \in DOMAIN df.index |-> df.cols[k][p[i]]]]]

\* dataframe = dataframe.sort_values(by='closed_at', ascending=False)
SortValues ==
    /\ pc = "sort_values"
    /\ IF "closed_at" \notin Columns(dataframe)
       THEN /\ pc' = "error"
            /\ error' = KeyError({"closed_at"})
            /\ UNCHANGED dataframe
       ELSE /\ pc' = "drop_closed_at"
            /\ \E p \in SortOrders(dataframe.cols["closed_at"]) :
                  dataframe' = Take(dataframe, p)
            /\ UNCHANGED error
    /\ UNCHANGED <<analysis, cleaned_data, csv, column_mappings, reference_date, threshold>>

\* dataframe = dataframe.drop(['closed_at'], axis=1).copy()
DropClosedAt ==
    /\ pc = "drop_closed_at"
    /\ pc' = "founded_year"
    /\ dataframe' = Drop(dataframe, {"closed_at"})
    /\ UNCHANGED <<analysis, cleaned_data, csv, column_mappings, reference_date, threshold, error>>

\* Timestamp.strftime('%Y'); a missing date gives a missing cell
Strftime(ts) == IF IsNaT(ts) THEN "<NaN>" ELSE ToString(ts.year)

\* dataframe['founded_year'] = dataframe['founded_at'].dt.strftime('%Y')
FoundedYear ==
    /\ pc = "founded_year"
    /\ IF "founded_at" \notin Columns(dataframe)
       THEN /\ pc' = "error"
            /\ error' = KeyError({"founded_at"})
            /\ UNCHANGED dataframe
       ELSE /\ pc' = "encode"
            /\ dataframe' =
                  SetColumn(dataframe, "founded_year",
                      [i \in 1..NRows(dataframe) |->
                          Strftime(dataframe.cols["founded_at"][i])])
            /\ UNCHANGED error
    /\ UNCHANGED <<analysis, cleaned_data, csv, column_mappings, reference_date, threshold>>

\* dataframe.to_csv('cleaned_data.csv', index=False)
Export ==
    /\ pc = "export"
    /\ pc' = "analysis"
    /\ cleaned_data' = [index |-> RangeIndex(NRows(dataframe)), cols |-> dataframe.cols]
    /\ UNCHANGED <<analysis, csv, dataframe, column_mappings, reference_date, threshold,
                   error>>

\* grouped['target'].map({0: 'closed', 1: 'acquired'}) and the other readers
\* of the encoded status (status == 1, status_mapping)
status_decoder == [code \in {0, 1} |-> IF code = 0 THEN "closed" ELSE "acquired"]

(***************************************************************************)
(* The analysis cells after the export (In[174] to In[177]).               *)
(***************************************************************************)
\* the positions of 1..n that the mask keeps, in order
Where(n, mask) == SelectSeq([i \in 1..n |-> i], LAMBDA i : i \in mask)

\* the rows of df at the positions p, as a new frame
Rows(df, p) ==
    [index |-> [i \in DOMAIN p |-> df.index[p[i]]],
     cols |-> [k \in Columns(df) |-> [i \in DOMAIN p |-> df.cols[k][p[i]]]]]

\* numerical_df_1 = dataframe.select_dtypes(include=numerics), every column
\* being numeric by now, and the two correlation matrices drawn from it
Heatmaps ==
    /\ pc = "analysis"
    /\ IF "status" \notin Columns(dataframe)
       THEN /\ pc' = "error"
            /\ error' = ValueError
            /\ UNCHANGED analysis
       ELSE /\ pc' = "sankey"
            /\ analysis' = [analysis EXCEPT !.numerical_df_1 = dataframe]
            /\ UNCHANGED error
    /\ UNCHANGED <<cleaned_data, csv, dataframe, column_mappings, reference_date,
                   threshold>>

\* grouped.source.map({0: '0', ..., 6: '6', 8: '8'}); any other key gives NaN
source_label(m) ==
    IF m.d = 1 /\ m.n \in {0, 1, 2, 3, 4, 5, 6, 8} THEN ToString(m.n) ELSE "<NaN>"

\* grouped['target'].map({0: 'closed', 1: 'acquired'})
target_label(code) ==
    IF code \in DOMAIN status_decoder THEN status_decoder[code] ELSE "<NaN>"

\* dataframe.groupby(["milestones", "status"]).size(), the two keys relabelled:
\* one row per pair that occurs (the order of the rows is not modelled)
Grouped(df) ==
    LET n == NRows(df)
        pairs == {<<df.cols["milestones"][i], df.cols["status"][i]>> : i \in 1..n}
    IN  { [source |-> source_label(pair[1]),
           target |-> target_label(pair[2]),
           value |-> Cardinality({i \in 1..n :
                        <<df.cols["milestones"][i], df.cols["status"][i]>> = pair})] :
          pair \in pairs }

Sankey ==
    /\ pc = "sankey"
    /\ IF ~({"milestones", "status"} \subseteq Columns(dataframe))
       THEN /\ pc' = "error"
            /\ error' = KeyError({"milestones", "status"} \ Columns(dataframe))
            /\ UNCHANGED analysis
       ELSE /\ pc' = "status_filter"
            /\ analysis' = [analysis EXCEPT !.grouped = Grouped(dataframe)]
            /\ UNCHANGED error
    /\ UNCHANGED <<cleaned_data, csv, dataframe, column_mappings, reference_date,
                   threshold>>

funding_flags ==
    {"has_VC", "has_angel", "has_roundA", "has_roundB", "has_roundC", "has_roundD"}

\* d = dataframe.loc[dataframe['status'] == 1]; f = d[[...]]
StatusFilter ==
    /\ pc = "status_filter"
    /\ LET acquired == {i \in 1..NRows(dataframe) : dataframe.cols["status"][i] = 1}
           d == Rows(dataframe, Where(NRows(dataframe), acquired))
       IN  IF ~(funding_flags \subseteq Columns(dataframe))
           THEN /\ pc' = "error"
                /\ error' = KeyError(funding_flags \ Columns(dataframe))
                /\ analysis' = [analysis EXCEPT !.d = d]
           ELSE /\ pc' = "funding_histogram"
                /\ analysis' = [analysis EXCEPT !.d = d]
                /\ UNCHANGED error
    /\ UNCHANGED <<cleaned_data, csv, dataframe, column_mappings, reference_date,
                   threshold>>

\* the cells present, in ascending order
Sorted(column) ==
    LET xs == NotNa(column)
        p == CHOOSE q \in Permutations(DOMAIN xs) :
                 \A i, j \in DOMAIN xs : i < j => ~RGt(xs[q[i]], xs[q[j]])
    IN  [i \in DOMAIN xs |-> xs[p[i]]]

\* Series.quantile(num / den), linear interpolation between the two cells
\* around the position (n - 1) * num / den
Quantile(column, num, den) ==
    LET xs == Sorted(column)
        n == Len(xs)
        below == ((n - 1) * num) \div den
        fraction == Frac((n - 1) * num - below * den, den)
    IN  IF n = 0 THEN NaN
        ELSE IF below + 2 > n THEN xs[below + 1]
        ELSE RAdd(xs[below + 1],
                  RMul(fraction, RSub(xs[below + 2], xs[below + 1])))

\* status_mapping = {1: 'Acquired', 0: 'Closed'}
status_mapping(code) ==
    IF code = 1 THEN "Acquired" ELSE IF code = 0 THEN "Closed" ELSE "<NaN>"

\* the frame indexed loses the rows that the mask leaves out
FilteredInPlace(df, p) == Rows(df, p)

\* dataframe[mask] builds a new frame from the rows p: the frame indexed
\* keeps every row and every cell
Indexed(df, p) == df

\* max_value, filtered_data = dataframe[mask] and the relabelling of
\* filtered_data['status'], an assignment to the new frame
FundingHistogram ==
    /\ pc = "funding_histogram"
    /\ IF "funding_total_usd" \notin Columns(dataframe)
       THEN /\ pc' = "error"
            /\ error' = KeyError({"funding_total_usd"})
            /\ UNCHANGED <<analysis, dataframe>>
       ELSE LET column == dataframe.cols["funding_total_usd"]
                max_value == Quantile(column, 99, 100)
                below == {i \in 1..NRows(dataframe) : RLt(column[i], max_value)}
                p == Where(NRows(dataframe), below)
                filtered_data == Rows(dataframe, p)
            IN  /\ pc' = "done"
                /\ dataframe' = Indexed(dataframe, p)
                /\ analysis' =
                      [analysis EXCEPT !.filtered_data =
                          SetColumn(filtered_data, "status",
                              [i \in DOMAIN p |->
                                  status_mapping(filtered_data.cols["status"][i])])]
                /\ UNCHANGED error
    /\ UNCHANGED <<cleaned_data, csv, column_mappings, reference_date, threshold>>

(***************************************************************************)
(* The file.  Its 49 columns are the 25 the script drops and the 24 it     *)
(* keeps; its rows are drawn from a few kinds of startup.                  *)
(***************************************************************************)
RetainedColumns ==
    { "state_code", "city", "founded_at", "closed_at", "first_funding_at",
      "last_funding_at", "age_first_funding_year", "age_last_funding_year",
      "age_first_milestone_year", "age_last_milestone_year", "relationships",
      "funding_rounds", "funding_total_usd", "milestones", "category_code",
      "has_VC", "has_angel", "has_roundA", "has_roundB", "has_roundC",
      "has_roundD", "avg_participants", "is_top500", "status" }

FileColumns == DropList \cup RetainedColumns

\* a startup that closed, with every field present
BaseRow ==
    [k \in FileColumns |->
        IF k \in DropList THEN "-"
        ELSE IF k = "state_code" THEN "CA"
        ELSE IF k = "city" THEN "San Francisco"
        ELSE IF k = "category_code" THEN "web"
        ELSE IF k = "status" THEN "closed"
        ELSE IF k = "founded_at" THEN DateText(1, 1, 2020)
        ELSE IF k = "first_funding_at" THEN DateText(1, 10, 2020)
        ELSE IF k = "last_funding_at" THEN DateText(3, 1, 2020)
        ELSE IF k = "closed_at" THEN DateText(6, 1, 2020)
        ELSE IF k \in Range(age_columns) THEN Num(2)
        ELSE Num(1)]

With(row, changes) ==
    [k \in DOMAIN row |-> IF k \in DOMAIN changes THEN changes[k] ELSE row[k]]

FileRows ==
    { BaseRow,
      With(BaseRow, [status |-> "acquired", closed_at |-> NoText,
                     age_first_milestone_year |-> NaN,
                     age_last_milestone_year |-> NaN,
                     state_code |-> "NY", city |-> "New York"]),
      With(BaseRow, [status |-> "acquired", closed_at |-> DateText(9, 1, 2021),
                     age_first_milestone_year |-> Num(-3),
                     age_first_funding_year |-> Num(-3),
                     founded_at |-> DateText(1, 10, 2020),
                     first_funding_at |-> DateText(1, 1, 2020)]),
      With(BaseRow, [closed_at |-> DateText(10, 1, 2021),
                     age_first_milestone_year |-> Num(-3),
                     category_code |-> "mobile"]),
      With(BaseRow, [status |-> "acquired", closed_at |-> NoText,
                     age_last_milestone_year |-> Num(-3),
                     founded_at |-> DateText(12, 25, 2019),
                     first_funding_at |-> DateText(1, 20, 2020),
                     state_code |-> "TX", city |-> "Austin"]),
      With(BaseRow, [closed_at |-> DateText(10, 1, 2021),
                     age_first_milestone_year |-> NaN,
                     age_last_funding_year |-> Num(4),
                     funding_total_usd |-> Num(5)]) }

\* dataframe = pd.read_csv(file_path, ...)
Init ==
    /\ pc = "binary_status"
    /\ \E n \in 1..MaxFileRows :
       \E rows \in [1..n -> FileRows] :
          csv = [index |-> RangeIndex(n),
                 cols |-> [k \in FileColumns |-> [i \in 1..n |-> rows[i][k]]]]
    /\ dataframe = csv
    /\ Idle

Next ==
    \/ BinaryStatus
    \/ DropIrrelevant
    \/ Impute
    \/ NegativeValuesDetection
    \/ ApplyAbsoluteValues
    \/ PreparePlotData
    \/ IdentifyOutliers
    \/ SortValues
    \/ DropClosedAt
    \/ FoundedYear
    \/ Encode
    \/ DateNormalise
    \/ Export
    \/ Heatmaps
    \/ Sankey
    \/ StatusFilter
    \/ FundingHistogram

Spec == Init /\ [][Next]_vars

Encoded == pc \in {"date_normalise", "export", "analysis"}

\* C9 as stated: whenever both statuses occur in the file, after the sort by
\* closed_at and the encoding 'closed' has code 0 and 'acquired' code 1, so
\* the fixed decoder {0: 'closed', 1: 'acquired'} gives every row (found by
\* its row label) the status it had in the file.
C9_StatusCodes ==
    (Encoded /\ StatusValues \subseteq Range(csv.cols["status"])) =>
        /\ column_mappings["status"]["closed"] = 0
        /\ column_mappings["status"]["acquired"] = 1
        /\ \A i \in 1..NRows(dataframe) :
              status_decoder[dataframe.cols["status"][i]] =
                  csv.cols["status"][dataframe.index[i] + 1]

(***************************************************************************)
(* The imputation step inside the whole script.                            *)
(***************************************************************************)
\* closed_at is still a column: from the load to the statement that drops it
HasClosedAt ==
    pc \in {"binary_status", "drop", "impute", "negative_values_detection",
            "apply_absolute_values", "prepare_plot_data", "identify_outliers",
            "sort_values", "drop_closed_at"}

\* the imputation step changed nothing but missing cells of the two columns
ImputationFrame ==
    /\ Columns(dataframe') = Columns(dataframe)
    /\ dataframe'.index = dataframe.index
    /\ \A c \in Columns(dataframe) :
          \A i \in 1..NRows(dataframe) :
              dataframe'.cols[c][i] # dataframe.cols[c][i] =>
                  /\ c \in ImputedColumns
                  /\ IsNaN(dataframe.cols[c][i])

\* C11: the imputation step changes only previously-missing cells of
\* age_first_milestone_year and age_last_milestone_year and no other column
\* (closed_at included); and as long as closed_at is a column of the table,
\* the row of every startup whose closed_at is missing in the file still has
\* it missing.
C11_ImputationFrame ==
    /\ [][pc = "impute" => ImputationFrame]_vars
    /\ [](HasClosedAt =>
            \A i \in 1..NRows(dataframe) :
                csv.cols["closed_at"][dataframe.index[i] + 1] = NoText =>
                    dataframe.cols["closed_at"][i] = NoText)

\* after the sort: a startup with no closed_at and no first milestone age in
\* the file has the first imputed and the second still missing
C11_Witness ==
    /\ pc = "drop_closed_at"
    /\ NRows(csv) = 3
    /\ \E i \in 1..3 :
          LET r == dataframe.index[i] + 1
          IN  /\ csv.cols["closed_at"][r] = NoText
              /\ IsNaN(csv.cols["age_first_milestone_year"][r])
              /\ dataframe.cols["closed_at"][i] = NoText
              /\ dataframe.cols["age_first_milestone_year"][i] = Frac(1, 2)
              /\ dataframe.index # csv.index

(***************************************************************************)
(* The script run on tables that lack a column a stage refers to: the file *)
(* without one of its columns, or the table as it stands before            *)
(* apply_absolute_values without some of the columns listed there.         *)
(***************************************************************************)
\* the file with the given rows
File(rows) ==
    [index |-> RangeIndex(Len(rows)),
     cols |-> [k \in FileColumns |-> [i \in 1..Len(rows) |-> rows[i][k]]]]

\* the table of a file after the drop, the imputation and
\* negative_values_detection
BeforeSignNormalisation(file) ==
    negative_values_detection(
        ImputeColumn(ImputeColumn(Drop(file, DropList), "age_first_milestone_year"),
                     "age_last_milestone_year"), TRUE).df

AbsentFromFile ==
    { {}, {"labels"}, {"age_last_milestone_year"}, {"age_first_funding_year"},
      {"city"}, {"category_code"} }

AbsentFromListed ==
    { {"age_first_funding_year"},
      {"age_last_funding_year", "age_last_milestone_year"} }

\* three kinds of row are enough here: all fields present, missing milestone
\* ages, negative ages
SchemaRows ==
    {row \in FileRows : /\ row["category_code"] = "web"
                        /\ row["funding_total_usd"] = Num(1)
                        /\ row["state_code"] # "TX"}

InitSchema ==
    /\ \E n \in 1..MaxFileRows :
       \E rows \in [1..n -> SchemaRows] :
          \/ /\ pc = "binary_status"
             /\ \E absent \in AbsentFromFile : csv = Drop(File(rows), absent)
          \/ /\ pc = "apply_absolute_values"
             /\ \E absent \in AbsentFromListed :
                   csv = Drop(BeforeSignNormalisation(File(rows)), absent)
    /\ dataframe = csv
    /\ Idle

SpecSchema == InitSchema /\ [][Next]_vars

\* the columns the stage about to run refers to
StageReferences ==
    IF pc = "drop" THEN DropList
    ELSE IF pc = "impute" THEN ImputedColumns
    ELSE IF pc = "apply_absolute_values" THEN Range(columns_to_abs)
    ELSE IF pc = "identify_outliers" THEN Range(monitored_columns)
    ELSE IF pc = "encode" THEN Range(categorical_columns) \cup columns_to_copy
    ELSE {}

\* those of them the table lacks
Missing == StageReferences \ Columns(dataframe)

\* the step stops the run with an error naming a missing column
FailsFast ==
    /\ pc' = "error"
    /\ error'.type = "KeyError"
    /\ error'.names # {}
    /\ error'.names \subseteq Missing

\* the step completes without the missing columns, the listed columns that
\* are present holding what the stage gives on them alone
Skips ==
    /\ pc' # "error"
    /\ error' = NoError
    /\ Columns(dataframe') \cap Missing = {}
    /\ \A c \in StageReferences \ Missing :
          dataframe'.cols[c] =
              IF pc = "apply_absolute_values"
              THEN apply_absolute_values(dataframe, <<c>>).cols[c]
              ELSE dataframe.cols[c]
    /\ pc = "identify_outliers" =>
          dataframe' = identify_outliers(dataframe,
                          SelectSeq(monitored_columns, LAMBDA c : c \notin Missing),
                          default_threshold)

DateTextRows ==
    { BaseRow,
      With(BaseRow, [first_funding_at |-> NoText]),
      With(BaseRow, [founded_at |-> DateText(13, 45, 2020)]),
      With(BaseRow, [last_funding_at |-> DateText(2, 30, 2020),
                     closed_at |-> NoText, status |-> "acquired"]),
      With(BaseRow, [first_funding_at |-> DateText(13, 1, 2020)]) }

InitDateText ==
    /\ pc = "binary_status"
    /\ \E n \in 1..MaxFileRows :
       \E rows \in [1..n -> DateTextRows] : csv = File(rows)
    /\ dataframe = csv
    /\ Idle

SpecDateText == InitDateText /\ [][Next]_vars

\* text that is a date in neither reading
Unparseable(text) == text # NoText /\ ~MonthFirst(text) /\ ~DayFirst(text)

HasUnparseable ==
    \E c \in Range(date_columns) :
        \E i \in 1..NRows(csv) : Unparseable(csv.cols[c][i])

\* C13: when founded_at, first_funding_at or last_funding_at holds a value
\* that cannot be parsed as a date, the run gets no further than the date
\* conversion of negative_values_detection, where it stops with a
\* ValueError: it never reaches sign normalisation, date normalisation or
\* export, and the cell still holds its text (no NaT, no sentinel).
C13_DateParseErrors ==
    HasUnparseable =>
        /\ pc \in {"binary_status", "drop", "impute", "negative_values_detection",
                   "error"}
        /\ pc = "error" => error = ValueError
        /\ cleaned_data = NoFile
        /\ \A c \in Range(date_columns) :
              \A i \in 1..NRows(csv) :
                  Unparseable(csv.cols[c][i]) =>
                      dataframe.cols[c][i] = csv.cols[c][i]

\* the conversion stopped at last_funding_at (30 February in the second
\* row), founded_at and first_funding_at before it already converted
C13_Witness ==
    /\ pc = "error"
    /\ error = ValueError
    /\ NRows(csv) = 2
    /\ csv.cols["last_funding_at"][2] = DateText(2, 30, 2020)
    /\ dataframe.cols["last_funding_at"] = csv.cols["last_funding_at"]
    /\ dataframe.cols["founded_at"][2] = Timestamp(2020, 1, 1)
    /\ IsNaT(dataframe.cols["first_funding_at"][1])

(***************************************************************************)
(* The number of columns before and after the drop of In[157].             *)
(***************************************************************************)
NColumns(df) == Cardinality(Columns(df))

\* C14 as stated: the drop of the listed columns takes a table of 50 columns
\* to one of exactly 24 columns.
C14_ColumnCount ==
    [][(pc = "drop" /\ NColumns(dataframe) = 50) => NColumns(dataframe') = 24]_vars

(***************************************************************************)
(* identify_outliers with its default threshold on a table of five rows    *)
(* whose one monitored column holds values among 1, 2, 3, 4 and 100.       *)
(***************************************************************************)
ScenarioColumn == << Num(1), Num(2), Num(3), Num(4), Num(100) >>

InitScenario ==
    /\ pc = "identify_outliers"
    /\ \E column \in [DOMAIN ScenarioColumn -> Range(ScenarioColumn)] :
          csv = [index |-> RangeIndex(Len(ScenarioColumn)),
                 cols |-> [k \in {"age_first_funding_year", "relationships"} |->
                              IF k = "age_first_funding_year" THEN column
                              ELSE ScenarioColumn]]
    /\ dataframe = csv
    /\ Idle

SpecScenario == InitScenario /\ [][IdentifyOutliers]_vars

\* identify_outliers has run on the column 1, 2, 3, 4, 100 (in any order)
ScenarioDone ==
    /\ pc = "sort_values"
    /\ Range(csv.cols["age_first_funding_year"]) = Range(ScenarioColumn)

\* C15: on the single monitored column 1, 2, 3, 4, 100, identify_outliers
\* with threshold 4 flags no row, the row holding 100 included: its
\* deviation |100 - 22| = 78 does not exceed 4 sample standard deviations.
C15_ScenarioUnflagged ==
    ScenarioDone =>
        /\ threshold = Num(4)
        /\ \A i \in 1..NRows(csv) :
              /\ dataframe.cols["is_outlier"][i] = 0
              /\ csv.cols["age_first_funding_year"][i] = Num(100) =>
                    /\ RSub(csv.cols["age_first_funding_year"][i],
                            Mean(csv.cols["age_first_funding_year"])) = Num(78)
                    /\ ~Deviates(csv.cols["age_first_funding_year"], i, Num(4))

C15_Witness ==
    /\ pc = "sort_values"
    /\ csv.cols["age_first_funding_year"] = ScenarioColumn
    /\ dataframe.cols["is_outlier"] = <<0, 0, 0, 0, 0>>
    /\ Deviates(csv.cols["age_first_funding_year"], 5, Num(1))

\* lo <= sqrt(x) < hi, for lo, hi >= 0
RootWithin(x, lo, hi) ==
    /\ ~RGt(Square(lo), x)
    /\ RGt(Square(hi), x)

\* C16 as stated: the column has mean 22 and sample standard deviation
\* 43.08 to two decimals, and 4 * std is 172.3 to one decimal.
C16_Original ==
    ScenarioDone =>
        LET column == dataframe.cols["age_first_funding_year"]
        IN  /\ Mean(column) = Num(22)
            /\ RootWithin(StdSquared(column), Frac(43075, 1000), Frac(43085, 1000))
            /\ RootWithin(RMul(Num(16), StdSquared(column)),
                          Frac(17225, 100), Frac(17235, 100))

\* C16, amended: the column 1, 2, 3, 4, 100 has mean 22 and sample variance
\* 7610 / 4 = 1902.5, so its sample standard deviation is 43.62 to two
\* decimals and 4 * std is 174.5 to one decimal.
C16_ScenarioStatistics ==
    ScenarioDone =>
        LET column == dataframe.cols["age_first_funding_year"]
        IN  /\ Mean(column) = Num(22)
            /\ StdSquared(column) = Frac(3805, 2)
            /\ RootWithin(StdSquared(column), Frac(43615, 1000), Frac(43625, 1000))
            /\ RootWithin(RMul(Num(16), StdSquared(column)),
                          Frac(17445, 100), Frac(17455, 100))

C16_Witness ==
    /\ pc = "sort_values"
    /\ csv.cols["age_first_funding_year"] =
          << Num(100), Num(4), Num(3), Num(2), Num(1) >>
    /\ SeqSum(dataframe.cols["age_first_funding_year"]) = Num(110)
    /\ threshold = Num(4)

(***************************************************************************)
(* The order of the statements of the script.                              *)
(***************************************************************************)
\* the statements in the order of the source
StatementOrder ==
    << "binary_status", "drop", "impute", "negative_values_detection",
       "apply_absolute_values", "prepare_plot_data", "identify_outliers",
       "sort_values", "drop_closed_at", "founded_year", "encode",
       "date_normalise", "export", "analysis", "sankey", "status_filter",
       "funding_histogram", "done" >>

\* the stages in the order claimed
StageOrder ==
    << "drop", "impute", "apply_absolute_values", "identify_outliers", "encode",
       "date_normalise", "export" >>

Rank(label) == CHOOSE k \in DOMAIN StatementOrder : StatementOrder[k] = label

\* the column of the file as imputation and sign normalisation leave it
Prepared(c) ==
    LET column == csv.cols[c]
        filled == IF c \in ImputedColumns THEN Fillna(column, Mean(column))
                  ELSE column
    IN  [i \in DOMAIN column |->
            IF IsNaN(filled[i]) THEN NaN
            ELSE IF filled[i].n < 0 THEN RSub(Num(0), filled[i]) ELSE filled[i]]

\* the encoding and the date normalisation are both complete in the table
EncodedAndNormalised(df) ==
    /\ DOMAIN column_mappings = Range(categorical_columns)
    /\ \A c \in Range(categorical_columns) :
          \A i \in 1..NRows(df) : df.cols[c][i] \in 0..(NRows(df) - 1)
    /\ \A c \in Range(columns_to_convert) :
          /\ c \notin Columns(df)
          /\ (c \o "_days") \in Columns(df)

\* the step goes from a statement to the one after it
NextStatement ==
    /\ pc \in Range(StatementOrder)
    /\ pc # "done"
    /\ pc' = StatementOrder[Rank(pc) + 1]

\* once computed, the indicator of every row stays what it is
IndicatorKept ==
    ("is_outlier" \in Columns(dataframe) /\ pc # "identify_outliers") =>
        /\ "is_outlier" \in Columns(dataframe')
        /\ threshold' = threshold
        /\ \A i, j \in 1..NRows(dataframe) :
              dataframe.index[i] = dataframe'.index[j] =>
                  dataframe.cols["is_outlier"][i] = dataframe'.cols["is_outlier"][j]

\* C17: every step of a run takes the script from one statement to the next
\* in the one fixed order, in which prune, impute, sign-normalise,
\* outlier-flag, encode, date-normalise and export come in this order, so
\* that a run reaching export has run each exactly once; identify_outliers
\* is given the imputed and sign-normalised values; the indicator it
\* computes is carried unchanged (row by row) from then on; and what is
\* exported is the encoded and date-normalised table.
C17_StageOrdering ==
    /\ \A k \in 1..(Len(StageOrder) - 1) :
          Rank(StageOrder[k]) < Rank(StageOrder[k + 1])
    /\ [][NextStatement]_vars
    /\ [](pc = "identify_outliers" =>
             \A c \in Range(monitored_columns) :
                 dataframe.cols[c] = Prepared(c))
    /\ [][IndicatorKept]_vars
    /\ [](pc = "export" => EncodedAndNormalised(dataframe))
    /\ [](cleaned_data # NoFile =>
             /\ Rank(pc) > Rank("export")
             /\ EncodedAndNormalised(cleaned_data))

\* a run that has exported a file with a negative and a missing milestone age
C17_Witness ==
    /\ pc = "analysis"
    /\ NRows(csv) = 3
    /\ csv.cols["age_first_milestone_year"] = <<NaN, Num(-3), Num(2)>>
    /\ \E i \in 1..3 :
          /\ cleaned_data.cols["age_first_milestone_year"][i] = Frac(1, 2)
          /\ cleaned_data.cols["is_outlier"][i] = 0
    /\ "founded_at_days" \in Columns(cleaned_data)
    /\ "status" \in DOMAIN column_mappings

(***************************************************************************)
(* The pipeline table after the export.                                    *)
(***************************************************************************)
PostExport ==
    pc \in {"analysis", "sankey", "status_filter", "funding_histogram", "done"}

\* C18: once to_csv has run, no later step (heatmaps, Sankey grouping,
\* status == 1 filter, funding histogram with the relabelling of status on
\* the filtered rows) changes the pipeline table or the file: in every state
\* after the export, the end of the script included, the table holds the
\* columns and cells that were exported.
C18_NoMutationAfterExport ==
    /\ [][PostExport => (dataframe' = dataframe /\ cleaned_data' = cleaned_data)]_vars
    /\ [](PostExport =>
             /\ cleaned_data.cols = dataframe.cols
             /\ NRows(cleaned_data) = NRows(dataframe))

\* the end of the script: two of three rows kept by the filter and
\* relabelled there, the table still holding the codes on all three rows
C18_Witness ==
    /\ pc = "done"
    /\ NRows(dataframe) = 3
    /\ NRows(analysis.filtered_data) = 2
    /\ Range(analysis.filtered_data.cols["status"]) = {"Acquired", "Closed"}
    /\ Range(dataframe.cols["status"]) = {0, 1}
    /\ NRows(analysis.d) = 1
    /\ analysis.grouped # {}

(***************************************************************************)
(* The plotting helpers and the exported schema.                           *)
(***************************************************************************)
\* the columns the pipeline stages leave: the retained columns of the file
\* without closed_at and the three dates, with founded_year, the three
\* offsets in days and the outlier indicator
PipelineColumns ==
    ((RetainedColumns \ {"closed_at"}) \ Range(columns_to_convert))
        \cup {"founded_year", "is_outlier"}
        \cup {c \o "_days" : c \in Range(columns_to_convert)}

PlotHelperLeavesTable ==
    pc \in {"negative_values_detection", "prepare_plot_data"} =>
        dataframe' = dataframe

PassThrough ==
    { "relationships", "funding_rounds", "funding_total_usd", "milestones",
      "has_VC", "has_angel", "has_roundA", "has_roundB", "has_roundC",
      "has_roundD", "avg_participants", "is_top500" }

\* a step keeps the rows, and keeps their order unless it is the sort
RowsKept ==
    /\ NRows(dataframe') = NRows(dataframe)
    /\ Range(dataframe'.index) = Range(dataframe.index)
    /\ pc # "sort_values" => dataframe'.index = dataframe.index

\* closed_at in the order the sort leaves: text descending, missing last
SortedByClosedAt ==
    LET key == dataframe.cols["closed_at"]
    IN  \A i, j \in 1..NRows(dataframe) :
            i < j =>
                /\ key[i] = NoText => key[j] = NoText
                /\ (key[i] # NoText /\ key[j] # NoText) =>
                      ~LexLess(TextChars(key[i]), TextChars(key[j]))

\* the exported row at position i holds what the input row r becomes
DerivesFrom(i, r) ==
    /\ \A c \in PassThrough : cleaned_data.cols[c][i] = csv.cols[c][r]
    /\ \A c \in Range(monitored_columns) : cleaned_data.cols[c][i] = Prepared(c)[r]
    /\ \A c \in {"state_code", "city", "category_code", "status"} :
          cleaned_data.cols[c][i] = column_mappings[c][csv.cols[c][r]]
    /\ cleaned_data.cols["founded_year"][i] =
          column_mappings["founded_year"][ToString(csv.cols["founded_at"][r].y)]
    /\ \A c \in Range(columns_to_convert) :
          LET text == csv.cols[c][r]
              days == cleaned_data.cols[c \o "_days"][i]
          IN  IF text = NoText THEN IsNaN(days)
              ELSE days = Num(DaysBetween(reference_date,
                                          Timestamp(text.y, text.m, text.d)))

\* C20: no step adds or removes a row, and the order of the rows changes
\* only at the sort by closed_at (text, descending, missing last) that comes
\* right before closed_at is dropped; every column always has one cell per
\* row of the file, the cells of the columns no statement assigns staying
\* with their row label; as many rows are exported as were loaded, and all
\* cells of an exported row derive from the one input row whose label the
\* row carries.
C20_RowIdentity ==
    /\ [][RowsKept]_vars
    /\ [](/\ Range(dataframe.index) = Range(csv.index)
          /\ \A c \in Columns(dataframe) : Len(dataframe.cols[c]) = NRows(csv)
          /\ \A c \in PassThrough \cap Columns(dataframe) :
                \A i \in 1..NRows(dataframe) :
                    dataframe.cols[c][i] = csv.cols[c][dataframe.index[i] + 1])
    /\ [](pc = "drop_closed_at" => SortedByClosedAt)
    /\ [](cleaned_data # NoFile =>
             /\ NRows(cleaned_data) = NRows(csv)
             /\ \A i \in 1..NRows(csv) : DerivesFrom(i, dataframe.index[i] + 1))

\* three rows exported in another order than loaded, the first loaded last
C20_Witness ==
    /\ pc = "done"
    /\ NRows(csv) = 3
    /\ dataframe.index = <<2, 1, 0>>
    /\ csv.cols["status"] = <<"closed", "closed", "acquired">>
    /\ cleaned_data.cols["status"] = <<0, 1, 1>>
    /\ csv.cols["funding_total_usd"] = <<Num(5), Num(1), Num(1)>>
    /\ cleaned_data.cols["funding_total_usd"] = <<Num(1), Num(1), Num(5)>>

(***************************************************************************)
(* The imputed cells in the exported table.                                *)
(***************************************************************************)
\* the mean of the values present in the column, signs kept
SignedMean(column) ==
    RDivInt(SumOfValues(column, Len(column)), CountOfValues(column))

\* the sum of the absolute values present at positions 1..k of the column
RECURSIVE SumOfMagnitudes(_, _)
SumOfMagnitudes(column, k) ==
    IF k = 0 THEN Num(0)
    ELSE IF IsNaN(column[k]) THEN SumOfMagnitudes(column, k - 1)
    ELSE RAdd(IF column[k].n < 0 THEN RSub(Num(0), column[k]) ELSE column[k],
              SumOfMagnitudes(column, k - 1))

MeanOfMagnitudes(column) ==
    RDivInt(SumOfMagnitudes(column, Len(column)), CountOfValues(column))

\* v = |m|
IsMagnitudeOf(v, m) ==
    /\ ~IsNaN(v)
    /\ v.n >= 0
    /\ v = m \/ RAdd(v, m) = Num(0)

\* C21: in the exported table every cell of age_first_milestone_year and
\* age_last_milestone_year that was missing in the file holds |m|, m being
\* the mean of the signed values the column had in the file (and is still
\* missing when the column had none): so it differs from m when m is
\* negative, and from the mean of the absolute values when that differs
\* from |m|.
C21_ImputedMagnitude ==
    cleaned_data # NoFile =>
        \A c \in ImputedColumns :
            \A i \in 1..NRows(cleaned_data) :
                LET column == csv.cols[c]
                    r == dataframe.index[i] + 1
                    m == SignedMean(column)
                    cell == cleaned_data.cols[c][i]
                IN  IsNaN(column[r]) =>
                        IF HasValue(column)
                        THEN /\ IsMagnitudeOf(cell, m)
                             /\ m.n < 0 => cell # m
                             /\ ~IsMagnitudeOf(MeanOfMagnitudes(column), m) =>
                                   cell # MeanOfMagnitudes(column)
                        ELSE IsNaN(cell)

\* the values -3 and 2 beside a missing one: the cell exported is 1/2, the
\* signed mean -1/2 and the mean of the absolute values 5/2
C21_Witness ==
    /\ pc = "done"
    /\ NRows(csv) = 3
    /\ \E i \in 1..3 :
          LET column == csv.cols["age_first_milestone_year"]
              r == dataframe.index[i] + 1
          IN  /\ IsNaN(column[r])
              /\ SignedMean(column) = Frac(-1, 2)
              /\ MeanOfMagnitudes(column) = Frac(5, 2)
              /\ cleaned_data.cols["age_first_milestone_year"][i] = Frac(1, 2)

(***************************************************************************)
(* identify_outliers with its default threshold on tables of up to         *)
(* MaxTableRows rows.  The flags depend on the values of a column, not on  *)
(* their order: the first monitored column holds its cells in the order    *)
(* missing, 0, 1, 3, any number of each, the second holds them reversed.   *)
(***************************************************************************)
\* missing cells, then zeros, then ones, then threes
Graded(n, missing, zeros, ones) ==
    [i \in 1..n |->
        IF i <= missing THEN NaN
        ELSE IF i <= missing + zeros THEN Num(0)
        ELSE IF i <= missing + zeros + ones THEN Num(1)
        ELSE Num(3)]

InitTables ==
    /\ pc = "identify_outliers"
    /\ \E n \in 1..MaxTableRows :
       \E missing \in 0..n :
       \E zeros \in 0..(n - missing) :
       \E ones \in 0..(n - missing - zeros) :
          LET column == Graded(n, missing, zeros, ones)
          IN  csv = [index |-> RangeIndex(n),
                     cols |-> [k \in {"age_first_funding_year",
                                      "age_last_milestone_year"} |->
                                  IF k = "age_first_funding_year" THEN column
                                  ELSE [i \in 1..n |-> column[n + 1 - i]]]]
    /\ dataframe = csv
    /\ Idle

SpecTables == InitTables /\ [][IdentifyOutliers]_vars

\* the deviation of the cell at position i from the mean is at most
\* (n - 1) / sqrt(n) sample standard deviations, n values being present with
\* sum S and sum of squares Q: (n x_i - S)^2 <= (n - 1) (n Q - S^2)
WithinLargestDeviation(column, i) ==
    LET n == CountOfValues(column)
        S == SumOfValues(column, Len(column))
        Q == SumOfSquares(column, Len(column))
        x == column[i]
    IN  (S.d = 1 /\ Q.d = 1 /\ x.d = 1) =>
            (n * x.n - S.n) * (n * x.n - S.n) <= (n - 1) * (n * Q.n - S.n * S.n)

\* C22: on a table of fewer than 18 rows identify_outliers with the default
\* threshold 4 leaves is_outlier at 0 on every row: a value lies at most
\* (n - 1) / sqrt(n) sample standard deviations from the mean of n values,
\* and (n - 1)^2 / n is below 4^2 for n < 18.
C22_SmallTablesUnflagged ==
    (pc = "sort_values" /\ NRows(csv) < 18) =>
        /\ threshold = Num(4)
        /\ \A i \in 1..NRows(csv) : dataframe.cols["is_outlier"][i] = 0
        /\ \A c \in MonitoredPresent :
              /\ \A i \in 1..NRows(csv) : WithinLargestDeviation(csv.cols[c], i)
              /\ LET n == CountOfValues(csv.cols[c])
                 IN  n >= 1 => (n - 1) * (n - 1) < 16 * n

\* seventeen rows, sixteen zeros and one 3: the 3 lies 16 / sqrt(17) = 3.88
\* standard deviations from the mean and is not flagged
C22_Witness ==
    /\ pc = "sort_values"
    /\ NRows(csv) = 17
    /\ csv.cols["age_first_funding_year"] = Graded(17, 0, 16, 0)
    /\ dataframe.cols["is_outlier"][17] = 0
    /\ Deviates(csv.cols["age_first_funding_year"], 17, Frac(31, 8))

====
